---- MODULE Spec2Model ----
(***************************************************************************)
(* Emotion-aware interviewer front end.                                    *)
(*                                                                         *)
(* Two groups of state are modelled:                                       *)
(*  - InterviewPage (WebSocket session): transport status, the playback    *)
(*    scheduler (handleAudioPlayback / playAudioQueue / stopAllAudio),     *)
(*    media capture set-up and the teardown done by handleEnd and the      *)
(*    effect clean-ups.  Specifications: SpecSession, SpecUplink,          *)
(*    SpecFrames; SpecScheduler calls the scheduler's callbacks in any     *)
(*    order and SpecPlayback adds fairness of the timers and the clock.    *)
(*  - EmotionDetector + VocalAnalyzer + fuseEmotions (the affect           *)
(*    pipeline).  Specifications: SpecAffect, SpecDetect, SpecHistory,     *)
(*    SpecRestart, SpecVocal, SpecVocalLong; SpecFunctions applies the     *)
(*    pure functions on their own.                                         *)
(*                                                                         *)
(* Time is counted in units of 10 ms.  Affect channels are fixed-point     *)
(* integers; the denominators are stated where the values are defined.     *)
(***************************************************************************)
EXTENDS Integers, Sequences, FiniteSets, TLC

VARIABLES
    \* ---- InterviewPage ----
    now,            \* clock shared by ctx.currentTime and the timers (10 ms units)
    agentStatus,    \* useState agentStatus
    wsState,        \* ws.readyState
    closePending,   \* an error event was fired; its close event is still queued
    audioQueue,     \* audioQueueRef.current
    isPlaying,      \* isPlayingRef.current
    stopped,        \* stoppedRef.current
    nextPlayTime,   \* nextPlayTimeRef.current
    playbackCtx,    \* playbackCtxRef.current: "null" or "open"
    loops,          \* suspended playAudioQueue invocations: their timer due times
    played,         \* every src.start(startAt) issued so far, in call order
    arrived,        \* number of downlink audio chunks received so far
    dropped,        \* ids of the chunks that were pending when stopAllAudio ran
    mediaPc,        \* position of the async setup() of the media effect
    audioCapture,   \* audioContextRef / script processor: "off", "running", "stopped"
    videoCapture,   \* frameIntervalRef: "off", "running", "stopped"
    mounted,        \* the media effect's `mounted` flag (component mounted)
    endPc,          \* "idle", "ending" (handleEnd ran, endInterview awaits), "done"
    teardownLog,    \* teardown steps in the order they were performed
    uplinkSent,     \* number of ws.send calls so far, per kind of message
    uplinkLost,     \* number of captured blocks / frames discarded, per kind
    sentLog,        \* the frames handed to ws.send so far, in call order
    encoding,       \* number of video frames between the open check and the send
    transcript,     \* useState transcript
    partialText,    \* useState partialText
    fnArg,          \* the argument a pure function is applied to, or Null
    fnResult,       \* what the function returned for it, or Null
    \* ---- VocalAnalyzer ----
    analyzer,       \* refs and state of the VocalAnalyzer
    \* ---- Home / InterviewContent (affect pipeline) ----
    stage,          \* useState stage: "setup" or "interview"
    session,        \* number of InterviewContent mounts so far (0: none yet)
    roomConnected,  \* the LiveKit room of the current mount can publish data
    facialEmotions, \* useState facialEmotions (hundredths) or Null
    vocalEmotions,  \* useState vocalEmotions (hundredths) or Null
    fusedEmotions,  \* useState fusedEmotions (thousandths) or Null
    emotionHistory, \* useState emotionHistory
    publishCount,   \* number of emotion_update messages publishData delivered
    lastPublished,  \* the data of the latest of them, or Null
    lastLog,        \* body of the latest POST to /emotion/log, or Null
    fuseCalls,      \* number of fuseEmotions invocations so far
    vocalUpdates,   \* number of onVocalUpdate calls so far
    \* ---- EmotionDetector (one entry per mounted instance) ----
    isModelLoaded,  \* useState isModelLoaded of the mounted instance
    videoElement,   \* the videoElement prop of the mounted instance is set
    det,            \* per instance: refs, counters and calls in flight
    ticks           \* number of detectEmotions invocations started so far

sessVars == <<now, agentStatus, wsState, closePending, audioQueue, isPlaying,
              stopped, nextPlayTime, playbackCtx, loops, played, arrived, dropped,
              mediaPc, audioCapture, videoCapture, mounted, endPc, teardownLog,
              uplinkSent, uplinkLost, sentLog, encoding, transcript, partialText,
              fnArg, fnResult, analyzer>>

upVars == <<uplinkSent, uplinkLost, sentLog, encoding>>

msgVars == <<transcript, partialText>>

fnVars == <<fnArg, fnResult>>

vocVars == <<analyzer>>

affectVars == <<stage, session, roomConnected, facialEmotions, vocalEmotions,
                fusedEmotions, emotionHistory, publishCount, lastPublished, lastLog,
                fuseCalls, vocalUpdates>>

detVars == <<isModelLoaded, videoElement, det, ticks>>

vars == <<sessVars, affectVars, detVars>>

\* ------------------------------------------------------------------ bounds
MaxTime == 5
MaxChunks == 3
MaxSessions == 1
MaxVocal == 1
MaxTicks == 2
MaxDetectTicks == 4
MaxCaptures == 2
MaxTranscript == 2
MaxFrames == 15
MaxLongFrames == 46
MaxSetups == 2
\* lengths of the downlink chunks in 10 ms; 0 is a binary frame that holds no
\* whole 16-bit sample
Durations == {0, 1, 2}

\* ------------------------------------------------------- program constants
\* the extra 10 ms of setTimeout(resolve, duration * 1000 + 10)
TimerSlack == 1
\* the cap of the emotion history (the admin timeline keeps slice(-200))
HISTORY_CAP == 200

Max(a, b) == IF a >= b THEN a ELSE b
Min(a, b) == IF a <= b THEN a ELSE b

RemoveAt(s, i) == [j \in 1..(Len(s) - 1) |-> IF j < i THEN s[j] ELSE s[j + 1]]

\* status values the server sends in {type: "status", status: ...}
ServerStatuses == {"listening", "thinking", "speaking", "done_speaking"}

\* ================================================================ transport

\* const MSG_AUDIO = 0x01; const MSG_VIDEO = 0x02
MSG_AUDIO == 1
MSG_VIDEO == 2

\* the frame built without its leading tag byte
Prefixed_NoTag(tag, payload) == payload

\* new Uint8Array(1 + n); prefixed[0] = tag; prefixed.set(payload, 1)
Prefixed(tag, payload) == <<tag>> \o payload

\* ws.send(JSON.stringify({type, ...})): a text frame; readyState is the state
\* of the socket at the moment of the call
TextFrame(type) ==
    [framing |-> "text", kind |-> type, bytes |-> <<>>, payload |-> <<>>,
     readyState |-> wsState]

\* ws.send(prefixed.buffer): a binary frame
BinaryFrame(kind, tag, payload) ==
    [framing |-> "binary", kind |-> kind, bytes |-> Prefixed(tag, payload),
     payload |-> payload, readyState |-> wsState]

\* Math.max(-1, Math.min(1, x)) then s < 0 ? s * 0x8000 : s * 0x7FFF, for
\* whole-numbered samples
Pcm16(x) ==
    LET sample == Max(0 - 1, Min(1, x))
    IN IF sample < 0 THEN sample * 32768 ELSE sample * 32767

\* the two bytes of an Int16Array element (little-endian)
Int16Bytes(v) ==
    LET u == (v + 65536) % 65536
    IN <<u % 256, u \div 256>>

\* new Uint8Array(pcm16.buffer)
RECURSIVE PcmBytes(_)
PcmBytes(input) ==
    IF input = <<>> THEN <<>>
    ELSE Int16Bytes(Pcm16(Head(input))) \o PcmBytes(Tail(input))

\* input blocks of the script processor (silence; an overdriven block)
AudioBlocks == {<<0, 0>>, <<2, 0 - 1>>}

\* the bytes toBlob may produce for a frame
JpegBlobs == {<<255, 216>>, <<255, 216, 255>>}

\* ws.onopen without its ws.send of the init message
WsOnOpen_NoInit ==
    /\ wsState = "CONNECTING"
    /\ wsState' = "OPEN"
    /\ agentStatus' = IF mounted THEN "initializing" ELSE agentStatus
    /\ UNCHANGED <<now, closePending, audioQueue, isPlaying, stopped, nextPlayTime,
                   playbackCtx, loops, played, arrived, dropped, mediaPc,
                   audioCapture, videoCapture, mounted, endPc, teardownLog>>
    /\ UNCHANGED <<upVars, affectVars, detVars, fnVars, vocVars, msgVars>>

\* ws.onopen
WsOnOpen ==
    /\ wsState = "CONNECTING"
    /\ wsState' = "OPEN"
    /\ agentStatus' = IF mounted THEN "initializing" ELSE agentStatus
    /\ UNCHANGED <<now, closePending, audioQueue, isPlaying, stopped, nextPlayTime,
                   playbackCtx, loops, played, arrived, dropped, mediaPc,
                   audioCapture, videoCapture, mounted, endPc, teardownLog>>
    /\ uplinkSent' = [uplinkSent EXCEPT !.control = @ + 1]
    /\ sentLog' = Append(sentLog, [TextFrame("init") EXCEPT !.readyState = "OPEN"])
    /\ UNCHANGED <<uplinkLost, encoding, affectVars, detVars, fnVars, vocVars, msgVars>>

\* a field that is absent from a parsed message
Undefined == "undefined"

\* a parsed server message; absent fields are Undefined (is_final is only
\* tested for truthiness: absent counts as FALSE)
Message(type, role, isFinal, text, status) ==
    [type |-> type, role |-> role, is_final |-> isFinal, text |-> text,
     status |-> status]

\* handleServerMessage(data); the setters do nothing once the page is unmounted
handleServerMessage(data) ==
    IF ~mounted
    THEN UNCHANGED <<agentStatus, transcript, partialText>>
    ELSE IF data.type = "transcript"
    THEN /\ UNCHANGED agentStatus
         /\ IF data.role = "user"
            THEN IF data.is_final
                 THEN /\ transcript' = Append(transcript, [role |-> "user",
                                                           text |-> data.text])
                      /\ partialText' = ""
                 ELSE /\ partialText' = data.text
                      /\ UNCHANGED transcript
            ELSE IF data.role = "assistant"
            THEN /\ transcript' = Append(transcript, [role |-> "assistant",
                                                      text |-> data.text])
                 /\ UNCHANGED partialText
            ELSE UNCHANGED <<transcript, partialText>>
    ELSE IF data.type = "status"
    THEN /\ agentStatus' = data.status
         /\ UNCHANGED <<transcript, partialText>>
    ELSE UNCHANGED <<agentStatus, transcript, partialText>>

\* ws.onmessage with a text frame: JSON.parse and handleServerMessage inside
\* one try / catch.  frame.parsed is "throws" (not JSON), "null" (JSON null:
\* reading data.type throws) or "object" with the message in frame.data.
OnTextFrame(frame) ==
    IF frame.parsed = "object"
    THEN handleServerMessage(frame.data)
    ELSE UNCHANGED <<agentStatus, transcript, partialText>>

\* ws.onmessage with a text frame carrying a status message
WsOnStatusMessage ==
    /\ wsState = "OPEN"
    /\ \E s \in ServerStatuses :
          OnTextFrame([parsed |-> "object",
                       data |-> Message("status", Undefined, FALSE, Undefined, s)])
    /\ UNCHANGED <<now, wsState, closePending, audioQueue, isPlaying, stopped,
                   nextPlayTime, playbackCtx, loops, played, arrived, dropped,
                   mediaPc, audioCapture, videoCapture, mounted, endPc, teardownLog>>
    /\ UNCHANGED <<affectVars, detVars, fnVars, vocVars, upVars>>

\* texts carried by transcript messages
Texts == {"hello"}

\* well-formed transcript messages
TranscriptMessages ==
    {Message("transcript", "user", f, t, Undefined) : f \in BOOLEAN, t \in Texts}
    \cup {Message("transcript", "assistant", FALSE, t, Undefined) : t \in Texts}

\* ws.onmessage with a text frame carrying a transcript message
WsOnTranscriptMessage ==
    /\ wsState = "OPEN"
    /\ Len(transcript) < MaxTranscript
    /\ \E d \in TranscriptMessages : OnTextFrame([parsed |-> "object", data |-> d])
    /\ UNCHANGED <<now, wsState, closePending, audioQueue, isPlaying, stopped,
                   nextPlayTime, playbackCtx, loops, played, arrived, dropped,
                   mediaPc, audioCapture, videoCapture, mounted, endPc, teardownLog>>
    /\ UNCHANGED <<affectVars, detVars, fnVars, vocVars, upVars>>

NoMessage == Message(Undefined, Undefined, FALSE, Undefined, Undefined)

\* text frames of an unexpected shape
MalformedFrames ==
    { [parsed |-> "throws", data |-> NoMessage],          \* not JSON
      [parsed |-> "null", data |-> NoMessage],            \* JSON null
      [parsed |-> "object", data |-> NoMessage],          \* {} : no type
      [parsed |-> "object",                               \* {type: "status"}
       data |-> Message("status", Undefined, FALSE, Undefined, Undefined)],
      [parsed |-> "object",                               \* partial without text
       data |-> Message("transcript", "user", FALSE, Undefined, Undefined)] }

\* ws.onmessage with a malformed text frame
WsOnMalformedMessage ==
    /\ wsState = "OPEN"
    /\ \E frame \in MalformedFrames : OnTextFrame(frame)
    /\ UNCHANGED <<now, wsState, closePending, audioQueue, isPlaying, stopped,
                   nextPlayTime, playbackCtx, loops, played, arrived, dropped,
                   mediaPc, audioCapture, videoCapture, mounted, endPc, teardownLog>>
    /\ UNCHANGED <<affectVars, detVars, fnVars, vocVars, upVars>>

\* ws.onerror: the connection failed; readyState is CLOSED when the event
\* fires and the close event follows it
WsOnError ==
    /\ wsState \in {"CONNECTING", "OPEN", "CLOSING"}
    /\ ~closePending
    /\ wsState' = "CLOSED"
    /\ closePending' = TRUE
    /\ agentStatus' = IF mounted THEN "error" ELSE agentStatus
    /\ UNCHANGED <<now, audioQueue, isPlaying, stopped, nextPlayTime, playbackCtx,
                   loops, played, arrived, dropped, mediaPc, audioCapture,
                   videoCapture, mounted, endPc, teardownLog>>
    /\ UNCHANGED <<affectVars, detVars, fnVars, vocVars, upVars, msgVars>>

\* ws.onclose: after an error event, after the server closed the connection,
\* or when the closing handshake started by ws.close() completes
WsOnClose ==
    /\ \/ closePending
       \/ wsState \in {"OPEN", "CLOSING"}
    /\ wsState' = "CLOSED"
    /\ closePending' = FALSE
    /\ agentStatus' = IF mounted THEN "disconnected" ELSE agentStatus
    /\ UNCHANGED <<now, audioQueue, isPlaying, stopped, nextPlayTime, playbackCtx,
                   loops, played, arrived, dropped, mediaPc, audioCapture,
                   videoCapture, mounted, endPc, teardownLog>>
    /\ UNCHANGED <<affectVars, detVars, fnVars, vocVars, upVars, msgVars>>

\* ======================================================= playback scheduler

\* One evaluation of the while condition of playAudioQueue and, when it holds,
\* the loop body up to the await; otherwise the exit of the loop.
\* q: the queue as it is now; ls: the other suspended invocations.
\* For a chunk that holds no whole sample, new Int16Array(buf) (odd byte
\* length) or ctx.createBuffer(1, 0, SAMPLE_RATE) (no byte) throws: the
\* invocation ends after the shift, before `isPlayingRef.current = false`.
DrainIteration(q, ls) ==
    IF Len(q) > 0 /\ ~stopped /\ Head(q).dur = 0
    THEN /\ audioQueue' = Tail(q)
         /\ loops' = ls
         /\ isPlaying' = TRUE
         /\ UNCHANGED <<played, nextPlayTime>>
    ELSE IF Len(q) > 0 /\ ~stopped
    THEN LET buf == Head(q)
             startAt == Max(now, nextPlayTime)
         IN /\ audioQueue' = Tail(q)
            /\ played' = Append(played, [id |-> buf.id, enq |-> buf.enq,
                                         startAt |-> startAt,
                                         endAt |-> startAt + buf.dur])
            /\ nextPlayTime' = startAt + buf.dur
            /\ loops' = Append(ls, now + buf.dur + TimerSlack)
            /\ isPlaying' = TRUE
    ELSE /\ audioQueue' = q
         /\ loops' = ls
         /\ isPlaying' = FALSE
         /\ UNCHANGED <<played, nextPlayTime>>

\* playAudioQueue without `if (isPlayingRef.current) return`
playAudioQueue_NoGuard(q) ==
    /\ playbackCtx' = "open"
    /\ DrainIteration(q, loops)

\* playAudioQueue from its first line to its first await
playAudioQueue(q) ==
    IF isPlaying
    THEN /\ audioQueue' = q
         /\ UNCHANGED <<isPlaying, playbackCtx, loops, played, nextPlayTime>>
    ELSE /\ playbackCtx' = "open"
         /\ DrainIteration(q, loops)

\* handleAudioPlayback with unshift in place of push
handleAudioPlayback_Unshift(buf) ==
    IF stopped
    THEN UNCHANGED <<audioQueue, isPlaying, playbackCtx, loops, played, nextPlayTime>>
    ELSE playAudioQueue(<<buf>> \o audioQueue)

\* handleAudioPlayback without `if (stoppedRef.current) return`; the loop it
\* starts leaves at once, with the chunk still in the queue
handleAudioPlayback_IgnoresStop(buf) ==
    playAudioQueue(Append(audioQueue, buf))

\* handleAudioPlayback(buffer)
handleAudioPlayback(buf) ==
    IF stopped
    THEN UNCHANGED <<audioQueue, isPlaying, playbackCtx, loops, played, nextPlayTime>>
    ELSE playAudioQueue(Append(audioQueue, buf))

\* ws.onmessage with a binary frame
WsOnAudioMessage ==
    /\ wsState = "OPEN"
    /\ arrived < MaxChunks
    /\ arrived' = arrived + 1
    /\ \E d \in Durations :
          handleAudioPlayback([id |-> arrived + 1, dur |-> d, enq |-> now])
    /\ UNCHANGED <<now, agentStatus, wsState, closePending, stopped, dropped,
                   mediaPc, audioCapture, videoCapture, mounted, endPc, teardownLog>>
    /\ UNCHANGED <<affectVars, detVars, fnVars, vocVars, upVars, msgVars>>

\* a call of handleAudioPlayback with no regard to the socket
Enqueue ==
    /\ arrived < MaxChunks
    /\ arrived' = arrived + 1
    /\ \E d \in Durations :
          handleAudioPlayback([id |-> arrived + 1, dur |-> d, enq |-> now])
    /\ UNCHANGED <<now, agentStatus, wsState, closePending, stopped, dropped,
                   mediaPc, audioCapture, videoCapture, mounted, endPc, teardownLog>>
    /\ UNCHANGED <<affectVars, detVars, fnVars, vocVars, upVars, msgVars>>

\* the setTimeout of a suspended playAudioQueue fires and the loop goes on
LoopWake ==
    \E i \in 1..Len(loops) :
        /\ loops[i] <= now
        /\ DrainIteration(audioQueue, RemoveAt(loops, i))
        /\ UNCHANGED <<now, agentStatus, wsState, closePending, stopped, playbackCtx,
                       arrived, dropped, mediaPc, audioCapture, videoCapture,
                       mounted, endPc, teardownLog>>
        /\ UNCHANGED <<affectVars, detVars, fnVars, vocVars, upVars, msgVars>>

\* stopAllAudio without `audioQueueRef.current = []`
stopAllAudio_KeepsQueue ==
    /\ stopped' = TRUE
    /\ audioQueue' = audioQueue
    /\ isPlaying' = FALSE
    /\ nextPlayTime' = 0
    /\ playbackCtx' = "null"
    /\ dropped' = dropped \cup {audioQueue[i].id : i \in 1..Len(audioQueue)}

\* stopAllAudio
stopAllAudio ==
    /\ stopped' = TRUE
    /\ audioQueue' = <<>>
    /\ isPlaying' = FALSE
    /\ nextPlayTime' = 0
    /\ playbackCtx' = "null"
    /\ dropped' = dropped \cup {audioQueue[i].id : i \in 1..Len(audioQueue)}

\* a call of stopAllAudio on its own
Cancel ==
    /\ stopAllAudio
    /\ UNCHANGED <<now, agentStatus, wsState, closePending, loops, played, arrived,
                   mediaPc, audioCapture, videoCapture, mounted, endPc, teardownLog>>
    /\ UNCHANGED <<affectVars, detVars, fnVars, vocVars, upVars, msgVars>>

\* ============================================================ media capture

\* getUserMedia resolved
MediaGranted ==
    /\ mediaPc = "requesting"
    /\ mediaPc' = IF mounted THEN "playing" ELSE "aborted"
    /\ UNCHANGED <<now, agentStatus, wsState, closePending, audioQueue, isPlaying,
                   stopped, nextPlayTime, playbackCtx, loops, played, arrived,
                   dropped, audioCapture, videoCapture, mounted, endPc, teardownLog>>
    /\ UNCHANGED <<affectVars, detVars, fnVars, vocVars, upVars, msgVars>>

\* getUserMedia or video.play() rejected: the catch of setup()
MediaFailed ==
    /\ mediaPc \in {"requesting", "playing"}
    /\ mediaPc' = "failed"
    /\ UNCHANGED <<now, agentStatus, wsState, closePending, audioQueue, isPlaying,
                   stopped, nextPlayTime, playbackCtx, loops, played, arrived,
                   dropped, audioCapture, videoCapture, mounted, endPc, teardownLog>>
    /\ UNCHANGED <<affectVars, detVars, fnVars, vocVars, upVars, msgVars>>

\* video.play() resolved: setupAudioCapture(stream); startVideoFrameCapture()
\* (startVideoFrameCapture returns early when the canvas / video refs are null,
\* which they are once the component is unmounted)
PlayResolved ==
    /\ mediaPc = "playing"
    /\ mediaPc' = "ready"
    /\ audioCapture' = "running"
    /\ videoCapture' = IF mounted THEN "running" ELSE videoCapture
    /\ UNCHANGED <<now, agentStatus, wsState, closePending, audioQueue, isPlaying,
                   stopped, nextPlayTime, playbackCtx, loops, played, arrived,
                   dropped, mounted, endPc, teardownLog>>
    /\ UNCHANGED <<affectVars, detVars, fnVars, vocVars, upVars, msgVars>>

\* processor.onaudioprocess: a captured block is converted and sent, or
\* discarded when the socket is not OPEN
AudioProcess ==
    /\ audioCapture = "running"
    /\ uplinkSent.audio + uplinkLost.audio < MaxCaptures
    /\ IF wsState = "OPEN"
       THEN /\ uplinkSent' = [uplinkSent EXCEPT !.audio = @ + 1]
            /\ \E input \in AudioBlocks :
                  sentLog' = Append(sentLog,
                                    BinaryFrame("audio", MSG_AUDIO, PcmBytes(input)))
            /\ UNCHANGED uplinkLost
       ELSE /\ uplinkLost' = [uplinkLost EXCEPT !.audio = @ + 1]
            /\ UNCHANGED <<uplinkSent, sentLog>>
    /\ UNCHANGED encoding
    /\ UNCHANGED <<now, agentStatus, wsState, closePending, audioQueue, isPlaying,
                   stopped, nextPlayTime, playbackCtx, loops, played, arrived,
                   dropped, mediaPc, audioCapture, videoCapture, mounted, endPc,
                   teardownLog>>
    /\ UNCHANGED <<affectVars, detVars, fnVars, vocVars, msgVars>>

\* the frame interval of startVideoFrameCapture fires: the frame is drawn and
\* canvas.toBlob is started, or the tick is skipped when the socket is not OPEN
FrameTick ==
    /\ videoCapture = "running"
    /\ uplinkSent.video + uplinkLost.video + encoding < MaxCaptures
    /\ IF wsState = "OPEN"
       THEN /\ encoding' = encoding + 1
            /\ UNCHANGED uplinkLost
       ELSE /\ uplinkLost' = [uplinkLost EXCEPT !.video = @ + 1]
            /\ UNCHANGED encoding
    /\ UNCHANGED <<uplinkSent, sentLog>>
    /\ UNCHANGED <<now, agentStatus, wsState, closePending, audioQueue, isPlaying,
                   stopped, nextPlayTime, playbackCtx, loops, played, arrived,
                   dropped, mediaPc, audioCapture, videoCapture, mounted, endPc,
                   teardownLog>>
    /\ UNCHANGED <<affectVars, detVars, fnVars, vocVars, msgVars>>

\* the toBlob callback and the arrayBuffer() promise of a frame have run: the
\* frame is dropped when there is no blob, else prefixed and sent
FrameEncoded ==
    /\ encoding > 0
    /\ encoding' = encoding - 1
    /\ \/ /\ uplinkLost' = [uplinkLost EXCEPT !.video = @ + 1]
          /\ UNCHANGED <<uplinkSent, sentLog>>
       \/ /\ uplinkSent' = [uplinkSent EXCEPT !.video = @ + 1]
          /\ \E buf \in JpegBlobs :
                sentLog' = Append(sentLog, BinaryFrame("video", MSG_VIDEO, buf))
          /\ UNCHANGED uplinkLost
    /\ UNCHANGED <<now, agentStatus, wsState, closePending, audioQueue, isPlaying,
                   stopped, nextPlayTime, playbackCtx, loops, played, arrived,
                   dropped, mediaPc, audioCapture, videoCapture, mounted, endPc,
                   teardownLog>>
    /\ UNCHANGED <<affectVars, detVars, fnVars, vocVars, msgVars>>

\* ================================================================= teardown

LogStep(log, cond, step) == IF cond THEN Append(log, step) ELSE log

\* handleEnd up to the await inside endInterview
HandleEnd ==
    /\ endPc \in {"idle", "ending"}
    /\ stopAllAudio
    /\ wsState' = IF wsState = "OPEN" THEN "CLOSING" ELSE wsState
    /\ endPc' = "ending"
    /\ teardownLog' =
          LogStep(LogStep(teardownLog, ~stopped, "scheduler"),
                  wsState = "OPEN", "transport")
    /\ uplinkSent' = IF wsState = "OPEN"
                      THEN [uplinkSent EXCEPT !.control = @ + 1] ELSE uplinkSent
    /\ sentLog' = IF wsState = "OPEN"
                   THEN Append(sentLog, TextFrame("end")) ELSE sentLog
    /\ UNCHANGED <<now, agentStatus, closePending, loops, played, arrived, mediaPc,
                   audioCapture, videoCapture, mounted>>
    /\ UNCHANGED <<uplinkLost, encoding, affectVars, detVars, fnVars, vocVars, msgVars>>

\* endInterview's setStage("setup"): InterviewPage unmounts and the effect
\* clean-ups run in declaration order (WebSocket effect, then media effect)
Unmount ==
    /\ endPc = "ending"
    /\ endPc' = "done"
    /\ wsState' = IF wsState = "OPEN" THEN "CLOSING" ELSE wsState
    /\ mounted' = FALSE
    /\ videoCapture' = IF videoCapture = "running" THEN "stopped" ELSE videoCapture
    /\ audioCapture' = IF audioCapture = "running" THEN "stopped" ELSE audioCapture
    /\ teardownLog' =
          LogStep(LogStep(LogStep(teardownLog, wsState = "OPEN", "transport"),
                          videoCapture = "running", "video"),
                  audioCapture = "running", "audio")
    /\ UNCHANGED <<now, agentStatus, closePending, audioQueue, isPlaying, stopped,
                   nextPlayTime, playbackCtx, loops, played, arrived, dropped, mediaPc>>
    /\ uplinkSent' = IF wsState = "OPEN"
                      THEN [uplinkSent EXCEPT !.control = @ + 1] ELSE uplinkSent
    /\ sentLog' = IF wsState = "OPEN"
                   THEN Append(sentLog, TextFrame("end")) ELSE sentLog
    /\ UNCHANGED <<uplinkLost, encoding, affectVars, detVars, fnVars, vocVars, msgVars>>

\* time passes
Tick ==
    /\ now < MaxTime
    /\ now' = now + 1
    /\ UNCHANGED <<agentStatus, wsState, closePending, audioQueue, isPlaying, stopped,
                   nextPlayTime, playbackCtx, loops, played, arrived, dropped,
                   mediaPc, audioCapture, videoCapture, mounted, endPc, teardownLog>>
    /\ UNCHANGED <<affectVars, detVars, fnVars, vocVars, upVars, msgVars>>

\* ========================================================= affect pipeline
\* A FacialEmotions sample is a record of seven numerators over its own
\* denominator `den` (value = numerator / den).  Raw classifier output is in
\* tenths; every computation below is exact.

\* null / undefined (a record, so that it compares with the vectors)
Null == [null |-> TRUE]

Channels == {"angry", "disgusted", "fearful", "happy", "neutral", "sad", "surprised"}

Sample(a, d, f, h, n, s, u, den) ==
    [angry |-> a, disgusted |-> d, fearful |-> f, happy |-> h, neutral |-> n,
     sad |-> s, surprised |-> u, den |-> den]

\* expression vectors the classifier may return (tenths)
RawSamples ==
    { Sample(0, 0, 0, 3, 5, 0, 2, 10),        \* composed face
      Sample(0, 0, 6, 0, 0, 4, 0, 10),        \* fearful / sad face
      Sample(10, 10, 10, 10, 10, 10, 10, 10) } \* every channel at 1

\* VocalFeatures as emitted by the analyser (hundredths)
VocalSamples ==
    { [pitch |-> 50, pitchVariation |-> 80, volume |-> 20, speakingRate |-> 60, stress |-> 70],
      [pitch |-> 100, pitchVariation |-> 100, volume |-> 0, speakingRate |-> 100, stress |-> 100] }

\* Math.round(num / d) for d > 0
Round(num, d) == (2 * num + d) \div (2 * d)

Abs(x) == IF x < 0 THEN 0 - x ELSE x

\* the clamp left out
Unclamped(x, d) == x

\* Math.min(1, x) on a value x / d
Clamp1(x, d) == Min(d, x)

\* mapToInterviewEmotions: result in hundredths
mapToInterviewEmotions(facial) ==
    LET D == facial.den
        \* anxiety, numerator over 10 * D
        anxiety == Clamp1(20 * facial.fearful + 12 * facial.sad
                          + 5 * facial.angry + 3 * facial.disgusted, 10 * D)
        \* confidence, numerator over 100 * D
        confidence == Clamp1(10 * (15 * facial.happy + 4 * facial.neutral
                                   + 3 * facial.surprised)
                             + 3 * (10 * D - anxiety), 100 * D)
        expressiveness == D - facial.neutral
        \* engagement, numerator over 10 * D
        engagement == Clamp1(4 * expressiveness + 4 * facial.happy
                             + 3 * facial.surprised
                             + Abs(facial.angry + facial.disgusted), 10 * D)
    IN [anxiety |-> Round(10 * anxiety, D),
        confidence |-> Round(confidence, D),
        engagement |-> Round(10 * engagement, D)]

\* mapToVocalEmotions with volume in place of (1 - volume) in anxiety
mapToVocalEmotions_LoudIsAnxious(features) ==
    LET anxiety == Clamp1(4 * features.pitchVariation + 3 * features.volume
                          + 3 * features.stress, 1000)
        confidence == Clamp1(3 * (100 - features.pitchVariation) + 4 * features.volume
                             + 3 * features.speakingRate, 1000)
        engagement == Clamp1(5 * features.speakingRate + 3 * features.volume
                             + 2 * features.pitchVariation, 1000)
    IN [anxiety |-> Round(anxiety, 10),
        confidence |-> Round(confidence, 10),
        engagement |-> Round(engagement, 10)]

\* mapToVocalEmotions: features in hundredths, result in hundredths
mapToVocalEmotions(features) ==
    LET \* numerators over 1000
        anxiety == Clamp1(4 * features.pitchVariation + 3 * (100 - features.volume)
                          + 3 * features.stress, 1000)
        confidence == Clamp1(3 * (100 - features.pitchVariation) + 4 * features.volume
                             + 3 * features.speakingRate, 1000)
        engagement == Clamp1(5 * features.speakingRate + 3 * features.volume
                             + 2 * features.pitchVariation, 1000)
    IN [anxiety |-> Round(anxiety, 10),
        confidence |-> Round(confidence, 10),
        engagement |-> Round(engagement, 10)]

\* smoothEmotions with the two weights exchanged
smoothEmotions_Swapped(current, previous) ==
    IF previous = Null
    THEN current
    ELSE LET k == previous.den \div current.den
             smooth(c) == 7 * previous[c] + 3 * current[c] * k
         IN Sample(smooth("angry"), smooth("disgusted"), smooth("fearful"),
                   smooth("happy"), smooth("neutral"), smooth("sad"),
                   smooth("surprised"), 10 * previous.den)

\* smoothEmotions(current, previous) with SMOOTHING_FACTOR = 0.3; current is a
\* raw sample (tenths), previous a smoothed one (its den is a power of ten)
smoothEmotions(current, previous) ==
    IF previous = Null
    THEN current
    ELSE LET k == previous.den \div current.den
             smooth(c) == 3 * previous[c] + 7 * current[c] * k
         IN Sample(smooth("angry"), smooth("disgusted"), smooth("fearful"),
                   smooth("happy"), smooth("neutral"), smooth("sad"),
                   smooth("surprised"), 10 * previous.den)

RECURSIVE MaxDen(_)
MaxDen(history) ==
    IF history = <<>> THEN 1 ELSE Max(Head(history).den, MaxDen(Tail(history)))

RECURSIVE SumChannel(_, _, _)
SumChannel(history, c, m) ==
    IF history = <<>> THEN 0
    ELSE Head(history)[c] * (m \div Head(history).den) + SumChannel(Tail(history), c, m)

\* averageEmotions(history)
averageEmotions(history) ==
    IF Len(history) = 0
    THEN Sample(0, 0, 0, 0, 1, 0, 0, 1)
    ELSE LET m == MaxDen(history)
             sum(c) == SumChannel(history, c, m)
         IN Sample(sum("angry"), sum("disgusted"), sum("fearful"), sum("happy"),
                   sum("neutral"), sum("sad"), sum("surprised"), m * Len(history))

\* a decay that scales every channel, not only neutral
Decayed_AllChannels(lastEmotion) ==
    LET d == 20 * lastEmotion.den
    IN Sample(21 * lastEmotion.angry, 21 * lastEmotion.disgusted,
              21 * lastEmotion.fearful, 21 * lastEmotion.happy,
              Clamp1(21 * lastEmotion.neutral, d), 21 * lastEmotion.sad,
              21 * lastEmotion.surprised, d)

\* the decayed copy built on a detection miss:
\* {...lastEmotion, neutral: Math.min(1, lastEmotion.neutral * 1.05)}
Decayed(lastEmotion) ==
    LET d == 20 * lastEmotion.den
    IN Sample(20 * lastEmotion.angry, 20 * lastEmotion.disgusted,
              20 * lastEmotion.fearful, 20 * lastEmotion.happy,
              Clamp1(21 * lastEmotion.neutral, d), 20 * lastEmotion.sad,
              20 * lastEmotion.surprised, d)

\* getDominantEmotion with the confidence rule tried first
getDominantEmotion_ConfidentFirst(emotions) ==
    IF emotions.confidence > 700 THEN "confident"
    ELSE IF emotions.anxiety > 700 THEN "anxious"
    ELSE IF emotions.engagement > 700 THEN "engaged"
    ELSE IF emotions.engagement < 300 THEN "disengaged"
    ELSE "neutral"

\* getDominantEmotion on a fused vector (thousandths)
getDominantEmotion(emotions) ==
    IF emotions.anxiety > 700 THEN "anxious"
    ELSE IF emotions.confidence > 700 THEN "confident"
    ELSE IF emotions.engagement > 700 THEN "engaged"
    ELSE IF emotions.engagement < 300 THEN "disengaged"
    ELSE "neutral"

\* ------------------------------------------- the pure functions on their own
\* fused vectors (thousandths) around the thresholds of getDominantEmotion
FusedGrid == {0, 200, 290, 300, 500, 700, 710, 800, 900, 1000}

FusedInputs ==
    {[anxiety |-> a, confidence |-> c, engagement |-> e] :
        a \in FusedGrid, c \in FusedGrid, e \in FusedGrid}

\* VocalFeatures (hundredths), pitch fixed: the mapper does not read it
FeatureGrid == {0, 20, 25, 60, 70, 80, 100}

VocalInputs ==
    {[pitch |-> 50, pitchVariation |-> v, volume |-> l, speakingRate |-> r,
      stress |-> t] :
        v \in FeatureGrid, l \in FeatureGrid, r \in FeatureGrid, t \in FeatureGrid}

pageVars == <<now, agentStatus, wsState, closePending, audioQueue, isPlaying,
              stopped, nextPlayTime, playbackCtx, loops, played, arrived, dropped,
              mediaPc, audioCapture, videoCapture, mounted, endPc, teardownLog>>

\* getDominantEmotion(fused) is called
Classify ==
    /\ fnArg \in FusedInputs
    /\ fnResult = Null
    /\ fnResult' = [label |-> getDominantEmotion(fnArg)]
    /\ UNCHANGED <<fnArg, pageVars, upVars, msgVars, affectVars, detVars, vocVars>>

\* mapToVocalEmotions(features) is called
MapVocal ==
    /\ fnArg \in VocalInputs
    /\ fnResult = Null
    /\ fnResult' = mapToVocalEmotions(fnArg)
    /\ UNCHANGED <<fnArg, pageVars, upVars, msgVars, affectVars, detVars, vocVars>>

\* ------------------------------------------------------------ fuseEmotions
\* const AUDIO_WEIGHT = 0.6; const VISUAL_WEIGHT = 0.4 (tenths)
AUDIO_WEIGHT == 6
VISUAL_WEIGHT == 4

\* the default {anxiety: 0.5, confidence: 0.5, engagement: 0.5} (hundredths)
NeutralVector == [anxiety |-> 50, confidence |-> 50, engagement |-> 50]

\* a missing modality counted as all zeros instead of the neutral default
OrZero(v) == IF v = Null THEN [anxiety |-> 0, confidence |-> 0, engagement |-> 0] ELSE v

\* facialEmotions || default, vocalEmotions || default
OrNeutral(v) == IF v = Null THEN NeutralVector ELSE v

\* the early return left out
NeverMissing(facialIn, vocalIn) == FALSE

\* the early return of fuseEmotions: if (!facialEmotions && !vocalEmotions) return
BothMissing(facialIn, vocalIn) == facialIn = Null /\ vocalIn = Null

\* the fused vector, in thousandths
Fuse(facialIn, vocalIn) ==
    LET facial == OrNeutral(facialIn)
        vocal == OrNeutral(vocalIn)
    IN [anxiety |-> AUDIO_WEIGHT * vocal.anxiety + VISUAL_WEIGHT * facial.anxiety,
        confidence |-> AUDIO_WEIGHT * vocal.confidence + VISUAL_WEIGHT * facial.confidence,
        engagement |-> AUDIO_WEIGHT * vocal.engagement + VISUAL_WEIGHT * facial.engagement]

\* setEmotionHistory((prev) => [...prev, {timestamp, ...fused}])
AppendHistory(prev, point) == Append(prev, point)

\* fuseEmotions, run by the effect on [facialEmotions, vocalEmotions] with the
\* values of that render; connected: publishData can deliver.  Date.now() is
\* the number of the call (the wall clock advances between calls).
fuseEmotions(facialIn, vocalIn, connected) ==
    /\ fuseCalls' = fuseCalls + 1
    /\ IF BothMissing(facialIn, vocalIn)
       THEN UNCHANGED <<fusedEmotions, emotionHistory, publishCount, lastPublished,
                        lastLog>>
       ELSE LET fused == Fuse(facialIn, vocalIn)
            IN /\ fusedEmotions' = fused
               /\ emotionHistory' =
                     AppendHistory(emotionHistory,
                                   [timestamp |-> fuseCalls + 1,
                                    anxiety |-> fused.anxiety,
                                    confidence |-> fused.confidence,
                                    engagement |-> fused.engagement])
               /\ publishCount' = IF connected THEN publishCount + 1
                                                ELSE publishCount
               /\ lastPublished' = IF connected THEN fused ELSE lastPublished
               /\ lastLog' = [fused |-> fused,
                              raw_facial |-> OrNeutral(facialIn),
                              raw_vocal |-> OrNeutral(vocalIn),
                              fused_emotion |-> getDominantEmotion(fused)]

\* startInterview succeeded: setStage("interview"); InterviewContent mounts and
\* its effects run (the fusion effect among them)
StartInterview(maxSessions) ==
    /\ stage = "setup"
    /\ session < maxSessions
    /\ stage' = "interview"
    /\ session' = session + 1
    /\ roomConnected' = FALSE
    /\ isModelLoaded' = FALSE
    /\ videoElement' = FALSE
    /\ fuseEmotions(facialEmotions, vocalEmotions, FALSE)
    /\ UNCHANGED <<facialEmotions, vocalEmotions, vocalUpdates, det, ticks>>
    /\ UNCHANGED sessVars

\* endInterview after its fetch: setStage("setup"); setEmotionHistory([]);
\* setFusedEmotions(null); InterviewContent and its children unmount
EndInterview ==
    /\ stage = "interview"
    /\ stage' = "setup"
    /\ emotionHistory' = <<>>
    /\ fusedEmotions' = Null
    /\ roomConnected' = FALSE
    /\ isModelLoaded' = FALSE
    /\ videoElement' = FALSE
    /\ UNCHANGED <<session, facialEmotions, vocalEmotions, publishCount,
                   lastPublished, lastLog, fuseCalls, vocalUpdates, det, ticks>>
    /\ UNCHANGED sessVars

\* the LiveKit room connected: publishData delivers from now on
RoomConnected ==
    /\ stage = "interview"
    /\ ~roomConnected
    /\ roomConnected' = TRUE
    /\ UNCHANGED <<stage, session, facialEmotions, vocalEmotions, fusedEmotions,
                   emotionHistory, publishCount, lastPublished, lastLog, fuseCalls,
                   vocalUpdates>>
    /\ UNCHANGED <<detVars, sessVars>>

\* handleVocalUpdate(features, emotions) called by the VocalAnalyzer of the
\* mounted InterviewContent, followed by the fusion effect
VocalUpdate(samples, maxUpdates) ==
    /\ stage = "interview"
    /\ vocalUpdates < maxUpdates
    /\ vocalUpdates' = vocalUpdates + 1
    /\ \E features \in samples :
          LET emotions == mapToVocalEmotions(features)
          IN /\ vocalEmotions' = emotions
             /\ fuseEmotions(facialEmotions, emotions, roomConnected)
    /\ UNCHANGED <<stage, session, roomConnected, facialEmotions>>
    /\ UNCHANGED <<detVars, sessVars>>

\* ----------------------------------------------------------- VocalAnalyzer
\* Volumes and pitches are in hundredths; averages and the pitch variation are
\* carried to four decimals before they are combined and rounded.

\* one animation frame of analyser data: the volume min(1, rms * 3) and the
\* pitch maxIndex / bufferLength it yields (a quiet frame; a loud, high one)
AnalyserFrames == {[volume |-> 4, pitch |-> 0], [volume |-> 100, pitch |-> 90]}

\* a stream that does not change: quiet frames only
SteadyFrames == {[volume |-> 4, pitch |-> 0]}

FreshAnalyzer ==
    [mount |-> 0, setups |-> 0, recentPitches |-> <<>>, recentVolumes |-> <<>>,
     silenceFrames |-> 0, totalFrames |-> 0, currentFeatures |-> Null]

\* the analyser effect runs for an audio stream: setupAudio resets the
\* counters and starts the animation-frame loop
SetupAudio(maxSetups) ==
    /\ stage = "interview"
    /\ analyzer.setups < maxSetups
    /\ analyzer' = [analyzer EXCEPT !.mount = session, !.setups = @ + 1,
                                    !.silenceFrames = 0, !.totalFrames = 0,
                                    !.recentPitches = <<>>, !.recentVolumes = <<>>]
    /\ UNCHANGED <<affectVars, detVars, pageVars, upVars, msgVars, fnVars>>

RECURSIVE SqrtSearch(_, _, _)
SqrtSearch(x, lo, hi) ==
    IF lo = hi THEN lo
    ELSE LET mid == (lo + hi + 1) \div 2
         IN IF mid * mid <= x THEN SqrtSearch(x, mid, hi)
                              ELSE SqrtSearch(x, lo, mid - 1)

\* floor(Math.sqrt(x)) for 0 <= x <= 9 * 10^8
ISqrt(x) == SqrtSearch(x, 0, 30000)

RECURSIVE Sum(_)
Sum(xs) == IF xs = <<>> THEN 0 ELSE Head(xs) + Sum(Tail(xs))

RECURSIVE SumSquares(_)
SumSquares(xs) == IF xs = <<>> THEN 0 ELSE Head(xs) * Head(xs) + SumSquares(Tail(xs))

\* push(x); if (length > 30) shift()
PushRecent(xs, x) ==
    LET pushed == Append(xs, x)
    IN IF Len(pushed) > 30 THEN Tail(pushed) ELSE pushed

\* the window test with the frame count left out
WindowDue_EveryFrame(total, held) == held >= 10

\* totalFrames.current % 15 === 0 && recentPitches.current.length >= 10
WindowDue(total, held) == total % 15 = 0 /\ held >= 10

\* the VocalFeatures with the pitch variation and the stress left unclamped
Features_Unclamped(pitches, volumes, silent, total) ==
    LET n == Len(pitches)
        avgPitch == (100 * Sum(pitches)) \div n
        avgVolume == (100 * Sum(volumes)) \div n
        spread == n * SumSquares(pitches) - Sum(pitches) * Sum(pitches)
        pitchVariation == (50 * ISqrt(100 * spread)) \div n
        stress == 3 * avgPitch + 4 * pitchVariation + 3 * (10000 - avgVolume)
    IN [pitch |-> Round(Sum(pitches), n),
        pitchVariation |-> Round(pitchVariation, 100),
        volume |-> Round(Sum(volumes), n),
        speakingRate |-> Round(100 * (total - silent), total),
        stress |-> Round(stress, 1000)]

\* the VocalFeatures of a window (hundredths)
Features(pitches, volumes, silent, total) ==
    LET n == Len(pitches)
        \* four decimals
        avgPitch == (100 * Sum(pitches)) \div n
        avgVolume == (100 * Sum(volumes)) \div n
        \* n^2 * 10^4 * variance
        spread == n * SumSquares(pitches) - Sum(pitches) * Sum(pitches)
        \* Math.min(1, Math.sqrt(pitchVariance) * 5), four decimals
        pitchVariation == Min(10000, (50 * ISqrt(100 * spread)) \div n)
        \* five decimals
        stress == Min(100000, 3 * avgPitch + 4 * pitchVariation
                              + 3 * (10000 - avgVolume))
    IN [pitch |-> Round(Sum(pitches), n),
        pitchVariation |-> Round(pitchVariation, 100),
        volume |-> Round(Sum(volumes), n),
        speakingRate |-> Round(100 * (total - silent), total),
        stress |-> Round(stress, 1000)]

\* one run of analyze for an animation frame, with the onVocalUpdate call and
\* the fusion effect that follow an emitted sample
Analyze(frames, maxFrames) ==
    /\ stage = "interview"
    /\ analyzer.setups > 0
    /\ analyzer.mount = session
    /\ analyzer.totalFrames < maxFrames
    /\ \E f \in frames :
          LET total == analyzer.totalFrames + 1
              silent == IF f.volume < 5 THEN analyzer.silenceFrames + 1
                                        ELSE analyzer.silenceFrames
              pitches == PushRecent(analyzer.recentPitches, f.pitch)
              volumes == PushRecent(analyzer.recentVolumes, f.volume)
              counted == [analyzer EXCEPT !.totalFrames = total,
                                          !.silenceFrames = silent,
                                          !.recentPitches = pitches,
                                          !.recentVolumes = volumes]
          IN IF WindowDue(total, Len(pitches))
             THEN LET features == Features(pitches, volumes, silent, total)
                      emotions == mapToVocalEmotions(features)
                  IN /\ analyzer' = [counted EXCEPT !.currentFeatures = features]
                     /\ vocalUpdates' = vocalUpdates + 1
                     /\ vocalEmotions' = emotions
                     /\ fuseEmotions(facialEmotions, emotions, roomConnected)
             ELSE /\ analyzer' = counted
                  /\ UNCHANGED <<vocalUpdates, vocalEmotions, fusedEmotions,
                                 emotionHistory, publishCount, lastPublished,
                                 lastLog, fuseCalls>>
    /\ UNCHANGED <<stage, session, roomConnected, facialEmotions>>
    /\ UNCHANGED <<detVars, pageVars, upVars, msgVars, fnVars>>

\* --------------------------------------------------------- EmotionDetector
HISTORY_SIZE == 3

FreshDetector ==
    [previousEmotions |-> Null, emotionHistory |-> <<>>, inFlight |-> 0,
     detectionCount |-> 0, missedDetections |-> 0, currentEmotions |-> Null]

\* loadModels resolved: setIsModelLoaded(true)
ModelsLoaded ==
    /\ stage = "interview"
    /\ ~isModelLoaded
    /\ isModelLoaded' = TRUE
    /\ UNCHANGED <<videoElement, det, ticks, affectVars, sessVars>>

\* tempVideo.play() resolved: setVideoElement(tempVideo)
VideoReady ==
    /\ stage = "interview"
    /\ ~videoElement
    /\ videoElement' = TRUE
    /\ UNCHANGED <<isModelLoaded, det, ticks, affectVars, sessVars>>

\* setInterval(detectEmotions, 400) fires: detectEmotions runs up to its await
IntervalTick(maxTicks) ==
    /\ stage = "interview"
    /\ isModelLoaded
    /\ videoElement
    /\ ticks < maxTicks
    /\ ticks' = ticks + 1
    /\ det' = [det EXCEPT ![session].inFlight = @ + 1]
    /\ UNCHANGED <<isModelLoaded, videoElement, affectVars, sessVars>>

\* the push without the shift
PushHistory_NoEvict(history, x) == Append(history, x)

\* emotionHistoryRef.current.push(x); if (length > HISTORY_SIZE) shift()
PushHistory(history, x) ==
    LET h == Append(history, x)
    IN IF Len(h) > HISTORY_SIZE THEN Tail(h) ELSE h

\* onEmotionUpdate(sample, interview): handleFacialUpdate sets facialEmotions
\* in Home; the fusion effect runs when an InterviewContent is mounted
EmitFacial(interview) ==
    /\ facialEmotions' = interview
    /\ IF stage = "interview"
       THEN fuseEmotions(interview, vocalEmotions, roomConnected)
       ELSE UNCHANGED <<fusedEmotions, emotionHistory, publishCount, lastPublished,
                        lastLog, fuseCalls>>

NoEmit ==
    UNCHANGED <<facialEmotions, fusedEmotions, emotionHistory, publishCount,
                lastPublished, lastLog, fuseCalls>>

\* what the classifier call may settle with: a detection carrying a raw
\* sample, no face (undefined), or an exception
ClassifierResults ==
    {[kind |-> "face", expressions |-> e] : e \in RawSamples}
    \cup {[kind |-> "none"], [kind |-> "throw"]}

\* a miss that stored the decayed sample as the newest smoothed sample
MissUpdate_WritesBack(d, decayed) ==
    [d EXCEPT !.inFlight = @ - 1,
              !.missedDetections = @ + 1,
              !.previousEmotions = decayed,
              !.emotionHistory = [@ EXCEPT ![Len(@)] = decayed],
              !.currentEmotions = decayed]

\* the refs and state of an instance after a miss that emitted `decayed`:
\* setMissedDetections(prev => prev + 1), setCurrentEmotions(decayed); the
\* branch assigns neither previousEmotionsRef nor emotionHistoryRef
MissUpdate(d, decayed) ==
    [d EXCEPT !.inFlight = @ - 1,
              !.missedDetections = @ + 1,
              !.currentEmotions = decayed]

\* the classifier call of an invocation of instance k settles with `result`
DetectSettles(k, result) ==
    LET d == det[k]
        r == result.kind
    IN IF r = "throw"
       THEN /\ det' = [det EXCEPT ![k].inFlight = @ - 1]
            /\ NoEmit
       ELSE IF r = "none"
       THEN IF d.previousEmotions # Null /\ Len(d.emotionHistory) > 0
            THEN LET decayed == Decayed(d.emotionHistory[Len(d.emotionHistory)])
                 IN /\ det' = [det EXCEPT ![k] = MissUpdate(d, decayed)]
                    /\ EmitFacial(mapToInterviewEmotions(decayed))
            ELSE /\ det' = [det EXCEPT ![k].inFlight = @ - 1,
                                       ![k].missedDetections = @ + 1]
                 /\ NoEmit
       ELSE LET smoothedEmotions == smoothEmotions(result.expressions, d.previousEmotions)
                history == PushHistory(d.emotionHistory, smoothedEmotions)
                averagedEmotions == averageEmotions(history)
            IN /\ det' = [det EXCEPT ![k].inFlight = @ - 1,
                                     ![k].detectionCount = @ + 1,
                                     ![k].previousEmotions = smoothedEmotions,
                                     ![k].emotionHistory = history,
                                     ![k].currentEmotions = averagedEmotions]
               /\ EmitFacial(mapToInterviewEmotions(averagedEmotions))

DetectResolve ==
    \E k \in 1..session :
        /\ det[k].inFlight > 0
        /\ \E r \in ClassifierResults : DetectSettles(k, r)
        /\ UNCHANGED <<stage, session, roomConnected, vocalEmotions, vocalUpdates,
                       isModelLoaded, videoElement, ticks, sessVars>>

\* ============================================================ specification

InitSession ==
    /\ now = 0
    /\ agentStatus = "connecting"
    /\ wsState = "CONNECTING"
    /\ closePending = FALSE
    /\ audioQueue = <<>>
    /\ isPlaying = FALSE
    /\ stopped = FALSE
    /\ nextPlayTime = 0
    /\ playbackCtx = "null"
    /\ loops = <<>>
    /\ played = <<>>
    /\ arrived = 0
    /\ dropped = {}
    /\ mediaPc = "requesting"
    /\ audioCapture = "off"
    /\ videoCapture = "off"
    /\ mounted = TRUE
    /\ endPc = "idle"
    /\ teardownLog = <<>>
    /\ uplinkSent = [audio |-> 0, video |-> 0, control |-> 0]
    /\ uplinkLost = [audio |-> 0, video |-> 0]
    /\ sentLog = <<>>
    /\ encoding = 0
    /\ transcript = <<>>
    /\ partialText = ""

InitAffect ==
    /\ stage = "setup"
    /\ session = 0
    /\ roomConnected = FALSE
    /\ facialEmotions = Null
    /\ vocalEmotions = Null
    /\ fusedEmotions = Null
    /\ emotionHistory = <<>>
    /\ publishCount = 0
    /\ lastPublished = Null
    /\ lastLog = Null
    /\ fuseCalls = 0
    /\ vocalUpdates = 0
    /\ isModelLoaded = FALSE
    /\ videoElement = FALSE
    /\ det = [k \in 1..(MaxSessions + 1) |-> FreshDetector]
    /\ ticks = 0

InitFn ==
    /\ fnArg = Null
    /\ fnResult = Null

InitVocal ==
    analyzer = FreshAnalyzer

Init == InitSession /\ InitAffect /\ InitFn /\ InitVocal

NextSession ==
    \/ WsOnOpen
    \/ WsOnStatusMessage
    \/ WsOnAudioMessage
    \/ WsOnError
    \/ WsOnClose
    \/ LoopWake
    \/ MediaGranted
    \/ MediaFailed
    \/ PlayResolved
    \/ HandleEnd
    \/ Unmount
    \/ Tick

SpecSession == Init /\ [][NextSession]_vars

\* the playback scheduler when stopAllAudio is never called: chunks arrive,
\* the timers of the drain loop fire and time passes
NextPlayback ==
    \/ WsOnOpen
    \/ WsOnAudioMessage
    \/ WsOnClose
    \/ LoopWake
    \/ Tick

\* the three callbacks of the playback scheduler called in any order
NextScheduler ==
    \/ Enqueue
    \/ Cancel
    \/ LoopWake
    \/ Tick

SpecScheduler == Init /\ [][NextScheduler]_vars

\* a setTimeout that is due fires, and the clock advances
SpecPlayback ==
    /\ Init
    /\ [][NextPlayback]_vars
    /\ WF_vars(LoopWake)
    /\ WF_vars(Tick)

\* the uplink of a session: the socket, the captures and the teardown
NextUplink ==
    \/ WsOnOpen
    \/ WsOnError
    \/ WsOnClose
    \/ MediaGranted
    \/ MediaFailed
    \/ PlayResolved
    \/ AudioProcess
    \/ FrameTick
    \/ FrameEncoded
    \/ HandleEnd
    \/ Unmount

SpecUplink == Init /\ [][NextUplink]_vars

\* the text frames of a session: status, transcript and malformed ones
NextFrames ==
    \/ WsOnOpen
    \/ WsOnStatusMessage
    \/ WsOnTranscriptMessage
    \/ WsOnMalformedMessage
    \/ WsOnError
    \/ WsOnClose
    \/ HandleEnd
    \/ Unmount

SpecFrames == Init /\ [][NextFrames]_vars

NextAffect ==
    \/ StartInterview(MaxSessions)
    \/ EndInterview
    \/ RoomConnected
    \/ VocalUpdate(VocalSamples, MaxVocal)
    \/ ModelsLoaded
    \/ VideoReady
    \/ IntervalTick(MaxTicks)
    \/ DetectResolve

SpecAffect == Init /\ [][NextAffect]_vars

\* the affect pipeline over one more interview, started after the previous
\* one ended (Home stays mounted in between)
NextRestart ==
    \/ StartInterview(MaxSessions + 1)
    \/ EndInterview
    \/ RoomConnected
    \/ VocalUpdate(VocalSamples, MaxVocal)
    \/ ModelsLoaded
    \/ VideoReady
    \/ IntervalTick(MaxTicks)
    \/ DetectResolve

SpecRestart == Init /\ [][NextRestart]_vars

\* one mounted EmotionDetector, long enough for its rolling history to fill
NextDetect ==
    \/ StartInterview(1)
    \/ ModelsLoaded
    \/ VideoReady
    \/ IntervalTick(MaxDetectTicks)
    \/ DetectResolve

SpecDetect == Init /\ [][NextDetect]_vars

\* one session in which the analyser reports the same features over and over
NextHistory ==
    \/ StartInterview(1)
    \/ VocalUpdate({[pitch |-> 50, pitchVariation |-> 80, volume |-> 20,
                     speakingRate |-> 60, stress |-> 70]}, HISTORY_CAP + 1)

SpecHistory == Init /\ [][NextHistory]_vars

\* the vocal analyser over one aggregation window, on changing input
NextVocal ==
    \/ StartInterview(1)
    \/ SetupAudio(1)
    \/ Analyze(AnalyserFrames, MaxFrames)

SpecVocal == Init /\ [][NextVocal]_vars

\* the vocal analyser over several windows, on a steady input
NextVocalLong ==
    \/ StartInterview(1)
    \/ SetupAudio(MaxSetups)
    \/ Analyze(SteadyFrames, MaxLongFrames)

SpecVocalLong == Init /\ [][NextVocalLong]_vars

\* the classifier and the vocal mapper applied to one argument
InitFunctions ==
    /\ InitSession
    /\ InitAffect
    /\ fnArg \in FusedInputs \cup VocalInputs
    /\ fnResult = Null
    /\ InitVocal

NextFunctions ==
    \/ Classify
    \/ MapVocal

SpecFunctions == InitFunctions /\ [][NextFunctions]_vars

\* =================================================================== claims

\* position of a step in a log, 0 when absent
Pos(log, step) ==
    IF \E i \in 1..Len(log) : log[i] = step
    THEN CHOOSE i \in 1..Len(log) : log[i] = step
    ELSE 0

AffectChannels == {"anxiety", "confidence", "engagement"}

\* C1: scheduling law.  Every chunk starts no earlier than the scheduled end of
\* the chunk started before it, and exactly at that end when it was enqueued
\* before that end.
C1_SchedulingLaw ==
    \A i \in 1..(Len(played) - 1) :
        /\ played[i + 1].startAt >= played[i].endAt
        /\ (played[i + 1].enq < played[i].endAt
               => played[i + 1].startAt = played[i].endAt)

\* C2: once stopAllAudio has run the pending queue is empty, the cursor is 0,
\* the playback context is released, and none of the chunks that were pending
\* when it ran has been started.
C2_CancelSafe ==
    stopped =>
        /\ audioQueue = <<>>
        /\ nextPlayTime = 0
        /\ playbackCtx = "null"
        /\ \A i \in 1..Len(played) : played[i].id \notin dropped

\* C2 witness: stopAllAudio ran while a chunk was playing and others were
\* pending, and the suspended loop has woken up since.
C2_Witness ==
    /\ stopped
    /\ dropped # {}
    /\ played # <<>>
    /\ loops = <<>>

\* C3: the emotion history never holds more than HISTORY_CAP points, holds
\* exactly HISTORY_CAP once more have been appended, and keeps the newest.
C3_HistoryBound ==
    /\ Len(emotionHistory) <= HISTORY_CAP
    /\ (vocalUpdates > HISTORY_CAP => Len(emotionHistory) = HISTORY_CAP)
    /\ \A i \in 1..(Len(emotionHistory) - 1) :
          emotionHistory[i].timestamp < emotionHistory[i + 1].timestamp

\* C4: once the status is "disconnected" or "error" it never changes again.
C4_TerminalStatus ==
    [][(agentStatus \in {"disconnected", "error"}) => (agentStatus' = agentStatus)]_vars

\* both steps were performed => a was performed before b
Before(log, a, b) ==
    (Pos(log, a) > 0 /\ Pos(log, b) > 0) => Pos(log, a) < Pos(log, b)

\* C5: when the session has ended, audio capture and video capture are not
\* running, the playback scheduler is cancelled and the transport is closed or
\* closing; and the steps performed came in the order audio capture, video
\* capture, playback scheduler, transport.
C5_TeardownOrder ==
    endPc = "done" =>
        /\ audioCapture # "running"
        /\ videoCapture # "running"
        /\ stopped
        /\ wsState \in {"CLOSING", "CLOSED"}
        /\ Before(teardownLog, "audio", "video")
        /\ Before(teardownLog, "video", "scheduler")
        /\ Before(teardownLog, "scheduler", "transport")

\* C6: at most one detectEmotions invocation of a detector is in flight.
C6_NoOverlap ==
    \A k \in DOMAIN det : det[k].inFlight <= 1

\* C7: every channel of the visual mapper's, the vocal mapper's and the fusion
\* step's output lies in [0, 1].
InUnit(v, one) == \A c \in AffectChannels : v[c] >= 0 /\ v[c] <= one

C7_Clamped ==
    /\ facialEmotions # Null => InUnit(facialEmotions, 100)
    /\ vocalEmotions # Null => InUnit(vocalEmotions, 100)
    /\ fusedEmotions # Null => InUnit(fusedEmotions, 1000)
    /\ \A i \in 1..Len(emotionHistory) : InUnit(emotionHistory[i], 1000)
    /\ lastPublished # Null => InUnit(lastPublished, 1000)

\* C7 witness: a decayed sample (detection miss) whose anxiety was clamped to 1
\* has been mapped and fused with a vocal vector.
C7_Witness ==
    /\ session = 1
    /\ det[1].missedDetections > 0
    /\ det[1].emotionHistory # <<>>
    /\ det[1].currentEmotions = Decayed(det[1].emotionHistory[Len(det[1].emotionHistory)])
    /\ facialEmotions # Null
    /\ facialEmotions.anxiety = 100
    /\ vocalEmotions # Null
    /\ fusedEmotions = Fuse(facialEmotions, vocalEmotions)

\* C8: once onclose / onerror has set the status, audio capture and video
\* capture are stopped and the playback scheduler is cancelled.
C8_CloseTearsDown ==
    agentStatus \in {"disconnected", "error"} =>
        /\ audioCapture # "running"
        /\ videoCapture # "running"
        /\ stopped

\* C9: with exactly one modality missing, each fused channel is
\* 0.6 * vocal + 0.4 * 0.5 (facial missing) or 0.6 * 0.5 + 0.4 * facial
\* (vocal missing); in thousandths.
C9_OneMissing ==
    fusedEmotions # Null =>
        /\ (facialEmotions = Null /\ vocalEmotions # Null) =>
              \A c \in AffectChannels : fusedEmotions[c] = 6 * vocalEmotions[c] + 200
        /\ (vocalEmotions = Null /\ facialEmotions # Null) =>
              \A c \in AffectChannels : fusedEmotions[c] = 300 + 4 * facialEmotions[c]

\* C9 witness: a fusion has run with the vocal vector present and the facial
\* one missing.
C9_Witness ==
    /\ facialEmotions = Null
    /\ vocalEmotions # Null
    /\ fusedEmotions # Null
    /\ Len(emotionHistory) = 1

\* C10: a fuseEmotions call with both modalities missing changes neither the
\* fused vector, nor the history, nor what has been sent.
C10_BothMissingNoOp ==
    [][(fuseCalls' # fuseCalls /\ facialEmotions' = Null /\ vocalEmotions' = Null)
          => UNCHANGED <<fusedEmotions, emotionHistory, publishCount, lastPublished,
                         lastLog>>]_vars

\* C10 witness: fuseEmotions has run with both modalities missing.
C10_Witness ==
    /\ fuseCalls > 0
    /\ facialEmotions = Null
    /\ vocalEmotions = Null

\* C11: no captured uplink audio block is discarded (only video frames may be).
C11_AudioNeverDropped ==
    uplinkLost.audio = 0

\* C12: chunks are started in arrival order: of two started chunks, the one
\* received first (smaller id) has the strictly earlier start time.
C12_ArrivalOrder ==
    \A i, j \in 1..Len(played) :
        played[i].id < played[j].id => played[i].startAt < played[j].startAt

\* C12 witness: three chunks were started, the last two having waited in the
\* queue together while the first was playing.
C12_Witness ==
    /\ Len(played) = 3
    /\ played[2].enq < played[1].endAt
    /\ played[3].enq < played[1].endAt

\* the values and the edges of the connection status machine
Conversational == {"listening", "thinking", "speaking"}

StatusEdges ==
    {<<"connecting", "initializing">>}
    \cup {<<"initializing", c>> : c \in Conversational}
    \cup (Conversational \X Conversational)
    \cup (({"connecting", "initializing"} \cup Conversational)
             \X {"disconnected", "error"})

\* C13: every change of the status follows an edge of connecting ->
\* initializing -> {listening <-> thinking <-> speaking} -> {disconnected |
\* error} (a session may also end from connecting or initializing).
C13_StatusMachine ==
    [][(agentStatus' # agentStatus) => (<<agentStatus, agentStatus'>> \in StatusEdges)]_vars

\* C16: receiving a malformed text frame changes neither the status, nor the
\* transcript, nor the partial text, and leaves the connection open.
C16_MalformedDropped ==
    [][WsOnMalformedMessage =>
          UNCHANGED <<agentStatus, transcript, partialText, wsState>>]_vars

\* C14: sessions do not cross-talk.  When an interview starts no vector has
\* been produced in it yet, so the step that starts it fuses nothing: the
\* history stays empty, there is no fused vector and nothing is logged.
C14_NoCrossTalk ==
    [][(session' = session + 1) =>
          /\ emotionHistory' = <<>>
          /\ fusedEmotions' = Null
          /\ lastLog' = lastLog]_vars

\* a fused vector (thousandths) whose channels are multiples of 0.01
TwoDecimals(v) == \A c \in AffectChannels : v[c] % 10 = 0

\* C15: every fused vector sent to the agent, logged or appended to the
\* history has each channel rounded to two decimal places.
C15_FusedRounded ==
    /\ lastPublished # Null => TwoDecimals(lastPublished)
    /\ lastLog # Null => TwoDecimals(lastLog.fused)
    /\ \A i \in 1..Len(emotionHistory) : TwoDecimals(emotionHistory[i])

\* out = previous * 0.3 + current * 0.7 in every channel, and out lies between
\* previous and current (all three compared over the denominator of out)
Interpolates(out, previous, current) ==
    /\ out.den = 10 * previous.den
    /\ \A c \in Channels :
          LET p == 10 * previous[c]
              x == current[c] * (out.den \div current.den)
          IN /\ 10 * out[c] = 3 * p + 7 * x
             /\ Min(p, x) <= out[c]
             /\ out[c] <= Max(p, x)

\* C17: a detection smoothed with no previous sample is stored unchanged;
\* smoothed with a previous sample it is previous * 0.3 + current * 0.7 in
\* every channel and lies between the two.
C17_SmootherLaw ==
    [][\A k \in DOMAIN det :
          det'[k].detectionCount # det[k].detectionCount =>
             IF det[k].previousEmotions = Null
             THEN det'[k].previousEmotions \in RawSamples
             ELSE \E e \in RawSamples :
                     Interpolates(det'[k].previousEmotions, det[k].previousEmotions, e)]_vars

\* C17 witness: a second detection was smoothed against the first one and the
\* result differs from every raw sample.
C17_Witness ==
    /\ session = 1
    /\ det[1].detectionCount = 2
    /\ det[1].previousEmotions # Null
    /\ det[1].previousEmotions.den = 100
    /\ \A e \in RawSamples : \E c \in Channels :
          det[1].previousEmotions[c] # 10 * e[c]

\* out is s with neutral replaced by min(1, s.neutral * 1.05); out is given
\* over 20 times the denominator of s
DecayOf(out, s) ==
    /\ out.den = 20 * s.den
    /\ \A c \in Channels \ {"neutral"} : out[c] = 20 * s[c]
    /\ out.neutral = Min(out.den, 21 * s.neutral)

\* C18: on a detection miss with a prior smoothed sample s the miss counter
\* goes up by one and the sample emitted is s with neutral replaced by
\* min(1, s.neutral * 1.05); it is passed on like any other sample.
C18_MissDecay ==
    [][\A k \in DOMAIN det :
          (det'[k].missedDetections # det[k].missedDetections
             /\ det[k].previousEmotions # Null) =>
             /\ det'[k].missedDetections = det[k].missedDetections + 1
             /\ DecayOf(det'[k].currentEmotions, det[k].previousEmotions)
             /\ det'[k].previousEmotions = det[k].previousEmotions
             /\ facialEmotions' = mapToInterviewEmotions(det'[k].currentEmotions)]_vars

\* C18 witness: the miss followed the sample {happy 0.3, neutral 0.5,
\* surprised 0.2}: neutral is now 0.525 and happy still 0.3.
C18_Witness ==
    /\ session = 1
    /\ det[1].missedDetections = 1
    /\ det[1].currentEmotions # Null
    /\ det[1].currentEmotions.den = 200
    /\ det[1].currentEmotions.neutral = 105
    /\ det[1].currentEmotions.happy = 60

\* the label the ordered rules give: the first rule that matches wins
FirstMatch(v) ==
    IF v.anxiety > 700 THEN "anxious"
    ELSE IF v.confidence > 700 THEN "confident"
    ELSE IF v.engagement > 700 THEN "engaged"
    ELSE IF v.engagement < 300 THEN "disengaged"
    ELSE "neutral"

\* C19: the dominant state is the label of the first matching rule, so a
\* vector with anxiety 0.8 is anxious whatever its confidence and engagement
\* ({0.8, 0.2, 0.5} and {0.8, 0.9, 0.9} among them).
C19_FirstRuleWins ==
    (fnArg \in FusedInputs /\ fnResult # Null) =>
        /\ fnResult.label = FirstMatch(fnArg)
        /\ fnArg.anxiety = 800 => fnResult.label = "anxious"

\* C19 witness: {anxiety 0.8, confidence 0.9, engagement 0.9} was classified.
C19_Witness ==
    /\ fnArg = [anxiety |-> 800, confidence |-> 900, engagement |-> 900]
    /\ fnResult = [label |-> "anxious"]

\* x (hundredths) is sum (thousandths, clamped to 1) rounded to two decimals
RoundedClamp(x, sum) ==
    LET clamped == IF sum > 1000 THEN 1000 ELSE sum
    IN /\ 10 * x - clamped <= 5
       /\ clamped - 10 * x <= 5

\* C20: the vocal mapper returns the three clamped weighted sums, rounded to
\* two decimals; {pitchVariation 0.8, volume 0.2, stress 0.7} gives anxiety
\* 0.77.
C20_VocalFormula ==
    (fnArg \in VocalInputs /\ fnResult # Null) =>
        /\ RoundedClamp(fnResult.anxiety,
                        4 * fnArg.pitchVariation + 3 * (100 - fnArg.volume)
                           + 3 * fnArg.stress)
        /\ RoundedClamp(fnResult.confidence,
                        3 * (100 - fnArg.pitchVariation) + 4 * fnArg.volume
                           + 3 * fnArg.speakingRate)
        /\ RoundedClamp(fnResult.engagement,
                        5 * fnArg.speakingRate + 3 * fnArg.volume
                           + 2 * fnArg.pitchVariation)
        /\ (fnArg.pitchVariation = 80 /\ fnArg.volume = 20 /\ fnArg.stress = 70)
              => fnResult.anxiety = 77

\* C20 witness: the mapper was applied to {pitch 0.5, pitchVariation 0.8,
\* volume 0.2, speakingRate 0.6, stress 0.7}.
C20_Witness ==
    /\ fnArg = [pitch |-> 50, pitchVariation |-> 80, volume |-> 20,
                speakingRate |-> 60, stress |-> 70]
    /\ fnResult # Null
    /\ fnResult.anxiety = 77

\* C21: every binary uplink frame is one tag byte followed by its payload,
\* the tag being 0x01 for audio and 0x02 for video; control messages are text
\* frames.
C21_FrameTags ==
    \A i \in 1..Len(sentLog) :
        LET f == sentLog[i]
        IN IF f.kind \in {"audio", "video"}
           THEN /\ f.framing = "binary"
                /\ Len(f.bytes) = Len(f.payload) + 1
                /\ f.bytes[1] = (IF f.kind = "audio" THEN 1 ELSE 2)
                /\ \A j \in 1..Len(f.payload) : f.bytes[j + 1] = f.payload[j]
           ELSE /\ f.kind \in {"init", "end"}
                /\ f.framing = "text"

\* C21 witness: an audio block and a video frame have both been sent.
C21_Witness ==
    /\ \E i \in 1..Len(sentLog) :
          sentLog[i].kind = "audio" /\ sentLog[i].payload = <<255, 127, 0, 128>>
    /\ \E i \in 1..Len(sentLog) : sentLog[i].kind = "video"

\* C27: every frame handed to ws.send is handed over while the socket is
\* OPEN.
C27_SendOnlyWhenOpen ==
    \A i \in 1..Len(sentLog) : sentLog[i].readyState = "OPEN"

\* C28: the init message is the first message sent on the connection.
C28_InitFirst ==
    sentLog # <<>> => sentLog[1].kind = "init"

\* C28 witness: the microphone was capturing before the socket opened (a block
\* was discarded), and audio was sent once it had opened.
C28_Witness ==
    /\ uplinkLost.audio > 0
    /\ Len(sentLog) >= 2
    /\ sentLog[2].kind = "audio"

FeatureFields == {"pitch", "pitchVariation", "volume", "speakingRate", "stress"}

\* C22: every emitted VocalFeatures sample has its five fields in [0, 1], and
\* the silent-frame counter never exceeds the total-frame counter.
C22_FeaturesInUnit ==
    /\ analyzer.silenceFrames <= analyzer.totalFrames
    /\ analyzer.currentFeatures # Null =>
          \A k \in FeatureFields :
              analyzer.currentFeatures[k] >= 0 /\ analyzer.currentFeatures[k] <= 100

\* C22 witness: a window of quiet and loud frames whose pitch spread reaches
\* the clamp (pitch variation 1) has been emitted.
C22_Witness ==
    /\ analyzer.currentFeatures # Null
    /\ analyzer.currentFeatures.pitchVariation = 100
    /\ analyzer.silenceFrames > 0
    /\ analyzer.silenceFrames < analyzer.totalFrames

\* C23: a sample is emitted on an analysed frame exactly when the frame count
\* of the stream is a positive multiple of 15 and the buffers hold at least 10
\* values, and then exactly one.
C23_OnePerWindow ==
    [][(analyzer'.totalFrames = analyzer.totalFrames + 1) =>
          IF analyzer'.totalFrames % 15 = 0 /\ Len(analyzer'.recentPitches) >= 10
          THEN vocalUpdates' = vocalUpdates + 1
          ELSE vocalUpdates' = vocalUpdates]_vars

\* C23 witness: a stream has run past its third window (45 frames, the
\* buffers full at 30).
C23_Witness ==
    /\ analyzer.totalFrames = 46
    /\ Len(analyzer.recentPitches) = 30
    /\ vocalUpdates >= 3

\* out is the per-channel mean of the samples of history (the samples are
\* brought to the largest denominator m; out is given over m * Len(history))
MeanOf(out, history) ==
    LET m == MaxDen(history)
    IN /\ out.den = m * Len(history)
       /\ \A c \in Channels :
             out[c] = SumChannel(history, c, m)

\* C24: a successful detection appends its smoothed sample to the rolling
\* history, which keeps the newest 3 in order, and passes the per-channel mean
\* of that history downstream.
C24_WindowMean ==
    [][\A k \in DOMAIN det :
          (det'[k].detectionCount # det[k].detectionCount) =>
             LET old == det[k].emotionHistory
                 new == det'[k].emotionHistory
             IN /\ Len(new) <= 3
                /\ new = (IF Len(old) = 3 THEN Tail(old) ELSE old)
                            \o <<det'[k].previousEmotions>>
                /\ MeanOf(det'[k].currentEmotions, new)
                /\ facialEmotions' = mapToInterviewEmotions(det'[k].currentEmotions)]_vars

\* C24 witness: a fourth detection has evicted the first smoothed sample.
C24_Witness ==
    /\ session = 1
    /\ det[1].detectionCount = 4
    /\ Len(det[1].emotionHistory) = 3
    /\ det[1].emotionHistory[1].den = 100
    /\ det[1].emotionHistory[3].den = 10000

\* C29: a detection miss changes neither the previous smoothed sample nor the
\* rolling history; a miss that follows a miss emits the same decayed sample
\* again; a miss with no prior sample emits nothing.
C29_MissKeepsState ==
    [][\A k \in DOMAIN det :
          (det'[k].missedDetections # det[k].missedDetections) =>
             LET h == det[k].emotionHistory
             IN /\ det'[k].previousEmotions = det[k].previousEmotions
                /\ det'[k].emotionHistory = h
                /\ (det[k].previousEmotions # Null /\ det[k].currentEmotions # Null
                      /\ DecayOf(det[k].currentEmotions, h[Len(h)])) =>
                       /\ det'[k].currentEmotions = det[k].currentEmotions
                       /\ facialEmotions' = mapToInterviewEmotions(det[k].currentEmotions)
                /\ (det[k].previousEmotions = Null) =>
                       /\ det'[k].currentEmotions = det[k].currentEmotions
                       /\ UNCHANGED <<facialEmotions, fusedEmotions, fuseCalls>>]_vars

\* C29 witness: two misses after one detection; the sample on display has
\* been decayed once, not twice.
C29_Witness ==
    /\ session = 1
    /\ det[1].detectionCount = 1
    /\ det[1].missedDetections = 2
    /\ det[1].currentEmotions # Null
    /\ det[1].currentEmotions.den = 20 * det[1].previousEmotions.den
    /\ Len(det[1].emotionHistory) = 1

\* chunk i has been handed to src.start
Scheduled(i) == \E j \in 1..Len(played) : played[j].id = i

\* a drain loop is waiting for a timer that is due after the last instant of
\* the clock
TimerBeyondClock == \E l \in 1..Len(loops) : loops[l] > MaxTime

\* C25: without stopAllAudio, every chunk passed to handleAudioPlayback is
\* eventually scheduled (as far as the clock reaches: a loop may still be
\* waiting for a timer due after MaxTime), and no chunk is scheduled twice.
C25_EveryChunkScheduled ==
    /\ \A i \in 1..MaxChunks :
          (arrived >= i) ~> (Scheduled(i) \/ TimerBeyondClock)
    /\ [](\A j, k \in 1..Len(played) :
             played[j].id = played[k].id => j = k)

\* the chunks that reached handleAudioPlayback and were neither scheduled nor
\* cleared from the queue by stopAllAudio
Unaccounted == arrived - Len(played) - Cardinality(dropped)

\* C26: at most one invocation of playAudioQueue is suspended in its loop at
\* any time, whatever the order of arrivals, timer wake-ups and stopAllAudio.
C26_OneDrainLoop == Len(loops) <= 1

\* C26 witness: stopAllAudio reset isPlaying while a loop was suspended, a
\* chunk arrived after that, and the suspended loop is still the only one.
C26_Witness ==
    /\ stopped
    /\ ~isPlaying
    /\ Len(loops) = 1
    /\ Unaccounted > 0

\* C30: once stopAllAudio has run, the stopped flag stays set, the queue
\* stays empty and nothing more is scheduled, whatever arrives.
C30_StoppedForGood ==
    [][stopped => /\ stopped'
                  /\ audioQueue' = <<>>
                  /\ played' = played]_vars

\* C30 witness: every chunk of the session arrived after stopAllAudio; none
\* was queued, scheduled or cleared.
C30_Witness ==
    /\ stopped
    /\ arrived = MaxChunks
    /\ audioQueue = <<>>
    /\ played = <<>>
    /\ dropped = {}
    /\ loops = <<>>
    /\ ~isPlaying

====
